---- MODULE Spec2Model ----
(***************************************************************************)
(* Model of langchain-data-processing-tutorials:                           *)
(*   text_file/text_to_vs.py  get_vs  (load, split, reuse-or-rebuild the   *)
(*                            Chroma index, wrap it in a retriever)        *)
(*   text_file/text_to_vs.py  main    (the command line: argparse, the     *)
(*   misc/utils.py            main     --metadata loop, create_document)   *)
(*                                                                         *)
(* get_vs is modelled statement by statement (pc is the position inside    *)
(* the call).  The langchain objects it calls are collaborators: the model *)
(* keeps of them only what get_vs hands them and what they hand back.      *)
(* A text is abstracted to the number of chunks the splitter cuts it into. *)
(***************************************************************************)
EXTENDS Integers, Sequences, FiniteSets, TLC

\* ---------------------------------------------------------------- bounds
MaxChunks == 2      \* a source text splits into 1..MaxChunks chunks
MaxEntries == 5     \* entries found in db_dir/index before the first run
MaxRuns == 2        \* get_vs invocations in one behaviour
MaxGroups == 2      \* occurrences of --metadata on one command line
MaxGroupLen == 2    \* values given to one --metadata occurrence

\* ------------------------------------------------------- program constants
ReuseThreshold == 3 \* "len(os.listdir(...)) > 3"
\* Entries a built index leaves in db_dir/index: what step 6 takes for "the
\* index already exists", one more than the threshold it compares with.
IndexArtifacts == ReuseThreshold + 1

None == "None"

Paths == {"doc.txt", "other.txt"}
Texts == 1..MaxChunks
SearchTypes == {"similarity", "mmr", "bogus"}
RecognizedSearchTypes == {"similarity", "mmr"}

VARIABLES
    files,        \* [Paths -> [readable, text]] : the source files on disk
    indexDir,     \* [isdir, entries] : what os sees at db_dir/index
    indexText,    \* text the persisted index was built from (0: not built here)
    pc,           \* position inside get_vs
    txt_path,     \* argument of the running call
    search_type,  \* argument of the running call
    docs,         \* result of loader.load()
    sub_docs,     \* result of splitter.split_documents(docs)
    embedded,     \* chunks handed to the embedding collaborator by this call
    branch,       \* "none" | "reuse" | "rebuild" : arm of the if at step 6
    dirBefore,    \* indexDir when the call started
    err,          \* exception that ended the call, or None
    runs,         \* number of get_vs calls entered so far
    prev,         \* record of the call that finished before the running one
    cpc,          \* position inside main
    argv,         \* the command line handed to main
    item,         \* index of the for loop over args.metadata
    metadata,     \* the dict built by the loop, as a set of <<key, value>>
    document,     \* the document main has created, or None
    opened,       \* the source file has been opened by main
    cerr,         \* exception that ended main, or None
    exitCode      \* process exit status, -1 while running

vsVars == <<files, indexDir, indexText, pc, txt_path, search_type, docs,
            sub_docs, embedded, branch, dirBefore, err, runs, prev>>
cliVars == <<cpc, argv, item, metadata, document, opened, cerr, exitCode>>
vars == <<files, indexDir, indexText, pc, txt_path, search_type, docs,
          sub_docs, embedded, branch, dirBefore, err, runs, prev,
          cpc, argv, item, metadata, document, opened, cerr, exitCode>>

\* ------------------------------------------------------------ data shapes
FileStates == [readable : {TRUE}, text : Texts]
                \cup {[readable |-> FALSE, text |-> 1]}
NoIndexDir == [isdir |-> FALSE, entries |-> 0]
DirStates == {NoIndexDir} \cup [isdir : {TRUE}, entries : 0..MaxEntries]

\* ------------------------------------------------- get_vs, steps 1 to 4
\* TextLoader.load: open(file_path) raises when the file cannot be read,
\* otherwise one Document with the whole text and metadata {"source": path}.
load_swallow(fs, path) ==
    [raised |-> None,
     docs |-> <<[page_content |-> fs[path].text,
                 metadata |-> {<<"source", path>>}]>>]

load(fs, path) ==
    IF fs[path].readable
    THEN [raised |-> None,
          docs |-> <<[page_content |-> fs[path].text,
                      metadata |-> {<<"source", path>>}]>>]
    ELSE [raised |-> "NotFound", docs |-> <<>>]

\* splitter.split_documents(docs): the chunks of the one loaded document, in
\* order, each carrying the document's metadata.  Chunk i of text t is <<t, i>>.
split_documents(d) ==
    [i \in 1..d[1].page_content |->
        [page_content |-> <<d[1].page_content, i>>, metadata |-> d[1].metadata]]

\* ------------------------------------------------------- get_vs, step 6
\* os.path.isdir(join(db_dir, "index")) and len(os.listdir(...)) > 3
UseExisting_ge(dir) == dir.isdir /\ dir.entries >= ReuseThreshold

UseExisting_off(dir) == dir.isdir /\ dir.entries > ReuseThreshold + 1

UseExisting(dir) == dir.isdir /\ dir.entries > ReuseThreshold

\* Entries of db_dir/index after Chroma.from_documents has persisted: the
\* index's own artifacts, next to whatever placeholder entries were there.
Persisted(dir) ==
    {[isdir |-> TRUE, entries |-> n] :
        n \in IndexArtifacts..(dir.entries + IndexArtifacts)}

\* ------------------------------------------------------- get_vs, step 7
\* db.as_retriever(search_type=...) accepts the recognized strategy tags.
as_retriever_ok(tag) == tag \in RecognizedSearchTypes

\* --------------------------------------------------------------- get_vs
\* What is remembered of a finished call when the next one is entered.
RunRecord ==
    [ran |-> pc = "done", txt_path |-> txt_path, search_type |-> search_type,
     dirBefore |-> dirBefore, branch |-> branch, embedded |-> embedded,
     chunks |-> Len(sub_docs), err |-> err]

\* get_vs(txt_path, db_dir, search_type) is entered.
Call(p, s) ==
    /\ pc \in {"idle", "done"}
    /\ runs < MaxRuns
    /\ runs' = runs + 1
    /\ prev' = RunRecord
    /\ txt_path' = p
    /\ search_type' = s
    /\ docs' = <<>>
    /\ sub_docs' = <<>>
    /\ embedded' = 0
    /\ branch' = "none"
    /\ dirBefore' = indexDir
    /\ err' = None
    /\ pc' = "load"
    /\ UNCHANGED <<files, indexDir, indexText>>
    /\ UNCHANGED cliVars

\* Steps 1-2: loader = TextLoader(txt_path); docs = loader.load()
Load ==
    /\ pc = "load"
    /\ LET r == load(files, txt_path) IN
         IF r.raised = None
         THEN /\ docs' = r.docs
              /\ pc' = "split"
              /\ UNCHANGED err
         ELSE /\ err' = r.raised
              /\ pc' = "done"
              /\ UNCHANGED docs
    /\ UNCHANGED <<files, indexDir, indexText, txt_path, search_type,
                   sub_docs, embedded, branch, dirBefore, runs, prev>>
    /\ UNCHANGED cliVars

\* Steps 3-5: the splitter is built, the documents are split, the embedding
\* model is initialised.
Split ==
    /\ pc = "split"
    /\ sub_docs' = split_documents(docs)
    /\ pc' = "index"
    /\ UNCHANGED <<files, indexDir, indexText, txt_path, search_type, docs,
                   embedded, branch, dirBefore, err, runs, prev>>
    /\ UNCHANGED cliVars

\* Step 6, first arm: db = Chroma(persist_directory=db_dir, ...).  sub_docs is
\* not passed: nothing of the current chunks reaches the embedding model.
ReuseIndex ==
    /\ pc = "index"
    /\ UseExisting(indexDir)
    /\ branch' = "reuse"
    /\ pc' = "retriever"
    /\ UNCHANGED <<files, indexDir, indexText, txt_path, search_type, docs,
                   sub_docs, embedded, dirBefore, err, runs, prev>>
    /\ UNCHANGED cliVars

\* Step 6, second arm: Chroma.from_documents(sub_docs, embeddings, ...) starts.
Rebuild ==
    /\ pc = "index"
    /\ ~UseExisting(indexDir)
    /\ branch' = "rebuild"
    /\ pc' = "embed"
    /\ UNCHANGED <<files, indexDir, indexText, txt_path, search_type, docs,
                   sub_docs, embedded, dirBefore, err, runs, prev>>
    /\ UNCHANGED cliVars

\* from_documents: the next chunk is embedded.
EmbedChunk ==
    /\ pc = "embed"
    /\ embedded < Len(sub_docs)
    /\ embedded' = embedded + 1
    /\ UNCHANGED <<files, indexDir, indexText, pc, txt_path, search_type,
                   docs, sub_docs, branch, dirBefore, err, runs, prev>>
    /\ UNCHANGED cliVars

\* from_documents: the embedding service fails on the next chunk; get_vs has
\* no handler, the exception leaves it.  get_vs itself writes nothing; what
\* the store leaves on disk at this point is its own matter and is taken
\* here to be nothing.
EmbedFails ==
    /\ pc = "embed"
    /\ embedded < Len(sub_docs)
    /\ embedded' = embedded + 1
    /\ err' = "EmbeddingService"
    /\ pc' = "done"
    /\ UNCHANGED <<files, indexDir, indexText, txt_path, search_type, docs,
                   sub_docs, branch, dirBefore, runs, prev>>
    /\ UNCHANGED cliVars

\* from_documents: every chunk is embedded, the index is written to db_dir.
Persist ==
    /\ pc = "embed"
    /\ embedded = Len(sub_docs)
    /\ indexDir' \in Persisted(indexDir)
    /\ indexText' = docs[1].page_content
    /\ pc' = "retriever"
    /\ UNCHANGED <<files, txt_path, search_type, docs, sub_docs, embedded,
                   branch, dirBefore, err, runs, prev>>
    /\ UNCHANGED cliVars

\* Step 7: retriever = db.as_retriever(search_type=search_type); return.
AsRetriever ==
    /\ pc = "retriever"
    /\ err' = IF as_retriever_ok(search_type) THEN None ELSE "InvalidArgument"
    /\ pc' = "done"
    /\ UNCHANGED <<files, indexDir, indexText, txt_path, search_type, docs,
                   sub_docs, embedded, branch, dirBefore, runs, prev>>
    /\ UNCHANGED cliVars

\* Between two calls the source file is rewritten with another text.
EditSource(p, t) ==
    /\ pc \in {"idle", "done"}
    /\ files[p].readable
    /\ files[p].text # t
    /\ files' = [files EXCEPT ![p].text = t]
    /\ UNCHANGED <<indexDir, indexText, pc, txt_path, search_type, docs,
                   sub_docs, embedded, branch, dirBefore, err, runs, prev>>
    /\ UNCHANGED cliVars

CliIdle ==
    /\ cpc = "idle"
    /\ argv = [path |-> None, groups |-> <<>>]
    /\ item = 1
    /\ metadata = {}
    /\ document = None
    /\ opened = FALSE
    /\ cerr = None
    /\ exitCode = -1

\* No get_vs call has been entered.
VsIdle ==
    /\ indexText = 0
    /\ pc = "idle"
    /\ txt_path = "doc.txt"
    /\ search_type = "similarity"
    /\ docs = <<>>
    /\ sub_docs = <<>>
    /\ embedded = 0
    /\ branch = "none"
    /\ dirBefore = indexDir
    /\ err = None
    /\ runs = 0
    /\ prev = RunRecord

Init ==
    /\ files \in [Paths -> FileStates]
    /\ indexDir \in DirStates
    /\ VsIdle
    /\ CliIdle

\* main never looks at db_dir: its runs start with no index directory.
InitCLI ==
    /\ files \in [Paths -> FileStates]
    /\ indexDir = NoIndexDir
    /\ VsIdle
    /\ CliIdle

Next ==
    \/ \E p \in Paths, s \in SearchTypes : Call(p, s)
    \/ Load
    \/ Split
    \/ ReuseIndex
    \/ Rebuild
    \/ EmbedChunk
    \/ EmbedFails
    \/ Persist
    \/ AsRetriever
    \/ \E p \in Paths, t \in Texts : EditSource(p, t)

Spec == Init /\ [][Next]_vars

\* ------------------------------------------------------------------ main
\* Command-line values, as the characters the shell hands over.
LangEn == <<"l", "a", "n", "g", "=", "e", "n">>
LangFr == <<"l", "a", "n", "g", "=", "f", "r">>
AuthorJane == <<"a", "u", "t", "h", "o", "r", "=", "j", "a", "n", "e">>
Foo == <<"f", "o", "o">>
TwoEq == <<"a", "=", "b", "=", "c">>
Entries == {LangEn, LangFr, AuthorJane, Foo, TwoEq}

SeqsUpTo(S, n) == UNION {[1..k -> S] : k \in 0..n}

\* One command line: the positional text_file_path (None when it is left
\* out) and, per occurrence of --metadata, the values that follow it.
Argvs ==
    [path : Paths \cup {None},
     groups : SeqsUpTo(SeqsUpTo(Entries, MaxGroupLen), MaxGroups)]

\* Names bound at module level of text_to_vs.py (imports and defs).
ModuleNames ==
    {"RecursiveCharacterTextSplitter", "OpenAIEmbeddings", "TextLoader",
     "Chroma", "argparse", "os", "get_vs", "main"}

HasEq(s) == \E i \in 1..Len(s) : s[i] = "="

FirstEq(s) == CHOOSE i \in 1..Len(s) : s[i] = "=" /\ \A j \in 1..(i - 1) : s[j] # "="

\* str.split('='): the fields between the '=' signs, empty fields included.
RECURSIVE split_eq(_)
split_eq(s) ==
    IF ~HasEq(s) THEN <<s>>
    ELSE <<SubSeq(s, 1, FirstEq(s) - 1)>>
             \o split_eq(SubSeq(s, FirstEq(s) + 1, Len(s)))

\* parser.parse_args(): text_file_path is required, and nargs='+' wants at
\* least one value after each --metadata.
parse_ok(a) ==
    /\ a.path # None
    /\ \A g \in 1..Len(a.groups) : Len(a.groups[g]) >= 1

\* metadata[key] = value on a dict kept as a set of pairs.
dict_set(d, key, value) == {m \in d : m[1] # key} \cup {<<key, value>>}

\* args = parser.parse_args()
ParseArgs(a) ==
    /\ cpc = "idle"
    /\ argv' = a
    /\ IF parse_ok(a)
       THEN /\ cpc' = "loop"
            /\ UNCHANGED <<cerr, exitCode>>
       ELSE /\ cpc' = "exited"
            /\ cerr' = "usage"
            /\ exitCode' = 2
    /\ UNCHANGED <<item, metadata, document, opened>>
    /\ UNCHANGED vsVars

\* One turn of "for item in args.metadata": key, value = item[0].split('=')
MetaItem ==
    /\ cpc = "loop"
    /\ item <= Len(argv.groups)
    /\ LET parts == split_eq(argv.groups[item][1]) IN
         IF Len(parts) = 2
         THEN /\ metadata' = dict_set(metadata, parts[1], parts[2])
              /\ item' = item + 1
              /\ UNCHANGED <<cpc, cerr, exitCode>>
         ELSE /\ cpc' = "exited"
              /\ cerr' = "ValueError"
              /\ exitCode' = 1
              /\ UNCHANGED <<metadata, item>>
    /\ UNCHANGED <<argv, document, opened>>
    /\ UNCHANGED vsVars

\* document = create_document(args.text_file_path, metadata): the name is
\* bound nowhere in the module, looking it up raises NameError.
CreateDocument ==
    /\ cpc = "loop"
    /\ item > Len(argv.groups)
    /\ "create_document" \notin ModuleNames
    /\ cpc' = "exited"
    /\ cerr' = "NameError"
    /\ exitCode' = 1
    /\ UNCHANGED <<argv, item, metadata, document, opened>>
    /\ UNCHANGED vsVars

NextCLI ==
    \/ \E a \in Argvs : ParseArgs(a)
    \/ MetaItem
    \/ CreateDocument

SpecCLI == InitCLI /\ [][NextCLI]_vars

\* =================================================================== claims
Populated(dir) == dir.isdir /\ dir.entries >= 4
PastDecision == pc \in {"embed", "retriever"} \/ (pc = "done" /\ err # "NotFound")
BuildCompleted == pc = "retriever" \/ (pc = "done" /\ err \in {None, "InvalidArgument"})

\* C1: get_vs takes the reuse path, embedding none of the current chunks and
\* leaving the directory as it found it, exactly when db_dir/index exists and
\* holds at least 4 entries; in every other directory state (index absent, or
\* 0 to 3 entries) it takes the rebuild path, and a build that the embedding
\* service lets complete has embedded every chunk and persisted a fresh index
\* of the current text.  The text plays no part in the choice.
C1_ReuseIffPopulated ==
    /\ PastDecision => branch \in {"reuse", "rebuild"}
    /\ branch = "reuse" =>
          /\ Populated(dirBefore)
          /\ embedded = 0
          /\ indexDir = dirBefore
    /\ branch = "rebuild" =>
          /\ ~Populated(dirBefore)
          /\ BuildCompleted =>
                /\ embedded = Len(sub_docs)
                /\ Len(sub_docs) = docs[1].page_content
                /\ Populated(indexDir)
                /\ indexText = docs[1].page_content
                /\ pc # "done" => indexText = files[txt_path].text

C1_Witness ==
    /\ pc = "done" /\ prev.ran
    /\ prev.branch = "reuse" /\ prev.dirBefore.entries = 4
    /\ branch = "reuse" /\ Len(sub_docs) # prev.chunks

\* The rebuild arm of C1, taken on a placeholder directory of 3 entries.
C1_WitnessRebuild ==
    /\ pc = "done" /\ err = None
    /\ branch = "rebuild" /\ dirBefore.isdir /\ dirBefore.entries = 3
    /\ embedded = 2

\* C2: starting from an empty persistence directory, two get_vs runs in a
\* row on the same source and directory, neither stopped by the loader or the
\* embedding service, call the embedding collaborator once per chunk in the
\* first run and not at all in the second, which takes the reuse path.
C2_SecondRunReuses ==
    (/\ pc = "done" /\ prev.ran
     /\ ~prev.dirBefore.isdir \/ prev.dirBefore.entries = 0
     /\ prev.txt_path = txt_path
     /\ prev.err \notin {"NotFound", "EmbeddingService"}
     /\ err \notin {"NotFound", "EmbeddingService"})
    => /\ prev.branch = "rebuild"
       /\ prev.embedded = prev.chunks
       /\ prev.chunks >= 1
       /\ branch = "reuse"
       /\ embedded = 0

C2_Witness ==
    /\ pc = "done" /\ prev.ran
    /\ ~prev.dirBefore.isdir
    /\ prev.txt_path = txt_path
    /\ prev.err = None /\ prev.embedded = 2
    /\ err = None /\ embedded = 0 /\ Len(sub_docs) = 2

\* C7 (as claimed): a get_vs call that fails on an unrecognized search
\* strategy tag has embedded no chunk and written nothing to the directory.
C7_NoWorkBeforeTagCheck ==
    (pc = "done" /\ err = "InvalidArgument")
        => (embedded = 0 /\ indexDir = dirBefore)

\* C10: the source is loaded and split before db_dir is inspected, on both
\* arms; a run whose source cannot be read ends at the load with NotFound,
\* never reaches the reuse-or-rebuild decision and leaves the directory alone,
\* whatever the directory holds.
C10_LoadBeforeDecision ==
    /\ (pc \in {"index", "embed", "retriever"} \/ branch # "none") =>
          /\ files[txt_path].readable
          /\ Len(docs) = 1
          /\ docs[1].metadata = {<<"source", txt_path>>}
          /\ pc # "done" => docs[1].page_content = files[txt_path].text
          /\ pc # "index" => Len(sub_docs) = docs[1].page_content
    /\ (pc \notin {"idle", "load"} /\ ~files[txt_path].readable) =>
          /\ pc = "done"
          /\ err = "NotFound"
          /\ branch = "none"
          /\ embedded = 0
          /\ indexDir = dirBefore

C10_Witness ==
    /\ pc = "done"
    /\ err = "NotFound"
    /\ Populated(indexDir)
    /\ branch = "none"

\* ------------------------------------------------------------ main, claims
Accepted == cpc = "exited" /\ parse_ok(argv)
EntriesOf(a) ==
    UNION {{a.groups[g][k] : k \in 1..Len(a.groups[g])} : g \in 1..Len(a.groups)}
WellFormed(e) == Len(split_eq(e)) = 2

\* C4 (as claimed): when some --metadata entry has no '=', main exits
\* non-zero with the invalid-argument error (ValueError) and has opened no
\* file and created no document.
C4_MalformedEntryRejected ==
    (Accepted /\ \E e \in EntriesOf(argv) : ~HasEq(e))
        => /\ exitCode # 0
           /\ cerr = "ValueError"
           /\ ~opened
           /\ document = None

\* C5 (as claimed): when every --metadata entry is a well-formed key=value,
\* main ends with a document whose metadata is the source path plus every
\* supplied pair.
C5_MetadataAttached ==
    (Accepted /\ argv.groups # <<>> /\ \A e \in EntriesOf(argv) : WellFormed(e))
        => /\ document # None
           /\ \A e \in EntriesOf(argv) :
                 <<split_eq(e)[1], split_eq(e)[2]>> \in metadata

\* C6 (as claimed): main exits 0 when the source is readable and the
\* metadata well-formed, and non-zero exactly on a listed failure.
C6_ExitCodeMatchesOutcome ==
    cpc = "exited" =>
        (exitCode = 0 <=>
            /\ parse_ok(argv)
            /\ files[argv.path].readable
            /\ \A e \in EntriesOf(argv) : HasEq(e))

====
